---- MODULE Spec2Model ----
(***************************************************************************)
(* Equidistant grid geometries of mikeio (spatial/grid_geometry.py):       *)
(* the axis parser, the Grid1D / Grid2D / Grid3D constructors, and the     *)
(* Grid2D / Grid3D queries (bbox, contains, find_index, isel).             *)
(*                                                                         *)
(* Python floats are modelled as exact rationals <<n, d>> (d > 0, lowest   *)
(* terms), so that spacing = extent / count, the half-cell offsets and the *)
(* ceilings are computed, not assumed.  Optional arguments are <<>> (None) *)
(* or <<v>>.  A call either returns a value or raises a named exception.   *)
(***************************************************************************)
EXTENDS Integers, Sequences, FiniteSets, TLC

VARIABLES geom, ctor, call, live

vars == <<geom, ctor, call, live>>

-----------------------------------------------------------------------------
(* Bounds of the model *)

\* longest coordinate / index array drawn as an input
MaxLen == 3
\* largest cell count drawn for an (x0, dx, nx) triple
MaxN == 3
\* time steps of a dfs1 file, at most
MaxSteps == 3

-----------------------------------------------------------------------------
(* Rational arithmetic standing for float arithmetic *)

Abs(k) == IF k < 0 THEN -k ELSE k

RECURSIVE GCD(_, _)
GCD(a, b) == IF b = 0 THEN a ELSE GCD(b, a % b)

Rat(n, d) ==
    LET s == IF d < 0 THEN -1 ELSE 1
        g == GCD(Abs(n), Abs(d))
    IN  <<(s * n) \div g, (s * d) \div g>>

I(k) == <<k, 1>>

RAdd(a, b) == Rat(a[1] * b[2] + b[1] * a[2], a[2] * b[2])
RSub(a, b) == Rat(a[1] * b[2] - b[1] * a[2], a[2] * b[2])
RMul(a, b) == Rat(a[1] * b[1], a[2] * b[2])
\* the divisor is non-zero: callers raise ZeroDivisionError first
RDiv(a, b) == Rat(a[1] * b[2], a[2] * b[1])
RHalf(a) == RDiv(a, I(2))
RLt(a, b) == a[1] * b[2] < b[1] * a[2]
RLe(a, b) == a[1] * b[2] <= b[1] * a[2]
RAbs(a) == <<Abs(a[1]), a[2]>>
RIsZero(a) == a[1] = 0
\* int(np.ceil(a))
RCeil(a) == -((-a[1]) \div a[2])

-----------------------------------------------------------------------------
(* Python values *)

None == <<>>
Some(v) == <<v>>

\* the outcome of a call: an exception, a value, or a value with a warning
Raise(e) == [ok |-> FALSE, exc |-> e, warned |-> FALSE]
Ret(v) == [ok |-> TRUE, val |-> v, warned |-> FALSE]
RetWarn(v) == [ok |-> TRUE, val |-> v, warned |-> TRUE]

\* np.diff
Diff(x) == [i \in 1..(Len(x) - 1) |-> RSub(x[i + 1], x[i])]

\* np.allclose defaults: rtol = 1e-5, atol = 1e-8
RTolInv == 100000
ATolInv == 100000000

\* |a - b| <= atol + rtol * |b|, with |a - b| = p/q and |b| = r/s:
\* p/q <= (s + 1000 r) / (10^8 s)  <=>  p s <= floor(q (s + 1000 r) / 10^8)
IsClose(a, b) ==
    LET df == RAbs(RSub(a, b))
        ab == RAbs(b)
    IN  df[1] * ab[2]
          <= (df[2] * (ab[2] + (ATolInv \div RTolInv) * ab[1])) \div ATolInv

AllClose(d, b) == \A i \in 1..Len(d) : IsClose(d[i], b)

\* np.linspace(a, b, n) for n >= 0
Linspace(a, b, n) ==
    IF n = 1 THEN <<a>>
    ELSE [i \in 1..n |-> RAdd(a, RDiv(RMul(I(i - 1), RSub(b, a)), I(n - 1)))]

-----------------------------------------------------------------------------
(* Axis parser *)

NotEquidistant(d) == Len(d) > 0 /\ ~AllClose(d, d[1])

\* TRUE when _check_equidistant raises NotImplementedError
check_equidistant(x) == NotEquidistant(Diff(x))

\* the branch of _parse_grid_axis for a coordinate array a
ParseArray(a) ==
    IF check_equidistant(a) THEN Raise("NotImplementedError")
    ELSE IF Len(a) > 1 /\ RLt(a[Len(a)], a[1]) THEN Raise("ValueError")
    ELSE IF Len(a) = 0 THEN Raise("IndexError")
    ELSE Ret([x0 |-> a[1],
              dx |-> IF Len(a) > 1 THEN RSub(a[2], a[1]) ELSE I(1),
              nx |-> Len(a)])

\* x: None or <<array>>; x0: float; dx: None or <<float>>; nx: None or <<int>>
parse_grid_axis(x, x0, dx, nx) ==
    IF x # None THEN ParseArray(x[1])
    ELSE IF nx = None THEN Raise("ValueError")
    ELSE IF dx = None THEN Raise("ValueError")
    ELSE IF RLe(dx[1], I(0)) THEN Raise("ValueError")
    ELSE Ret([x0 |-> x0, dx |-> dx[1], nx |-> nx[1]])

-----------------------------------------------------------------------------
(* Constructors *)

\* x0=0.0 in the signatures: an x0 that is not supplied is 0.0
X0Default(x0) == IF x0 = None THEN I(0) ELSE x0[1]

\* an axis argument group a = [x, x0, dx, nx] of a constructor call
AxisOf(a) == parse_grid_axis(a.x, X0Default(a.x0), a.dx, a.nx)

\* Grid1D.__init__ once its axis is parsed to p
Grid1DFrom(p, origin, orientation, nc) ==
    IF ~p.ok THEN p
    ELSE IF nc # None /\ Len(nc[1]) # p.val.nx THEN Raise("ValueError")
    ELSE Ret([kind |-> "Grid1D",
              x0 |-> p.val.x0, dx |-> p.val.dx, nx |-> p.val.nx,
              origin |-> origin, orientation |-> orientation, nc |-> nc])

Grid1D(a, origin, orientation, nc) == Grid1DFrom(AxisOf(a), origin, orientation, nc)

parse_bbox(bbox) ==
    IF RLt(bbox[3], bbox[1]) THEN Raise("ValueError")
    ELSE IF RLt(bbox[4], bbox[2]) THEN Raise("ValueError")
    ELSE Ret(bbox)

\* the dx branch of _create_in_bbox_1d, with nx = int(np.ceil(xr / dx))
FitSpacing(left, xr, dx, nx) ==
    Ret([x0 |-> RAdd(RSub(RAdd(left, RHalf(xr)), RHalf(RMul(dx, I(nx)))), RHalf(dx)),
         dx |-> dx, nx |-> nx])

\* the nx branch of _create_in_bbox_1d, with dx = xr / nx
FitCount(left, dx, nx) == Ret([x0 |-> RAdd(left, RHalf(dx)), dx |-> dx, nx |-> nx])

create_in_bbox_1d(left, right, dx, nx) ==
    IF dx # None
    THEN IF RIsZero(dx[1]) THEN Raise("ZeroDivisionError")
         ELSE FitSpacing(left, RSub(right, left), dx[1],
                         RCeil(RDiv(RSub(right, left), dx[1])))
    ELSE IF nx # None
    THEN IF nx[1] = 0 THEN Raise("ZeroDivisionError")
         ELSE FitCount(left, RDiv(RSub(right, left), I(nx[1])), nx[1])
    ELSE Raise("ValueError")

\* number of cells along the shorter extent when nothing is given
DefaultCells == 10

\* int(np.ceil(n * num / den))
InferCount(n, num, den) == RCeil(RDiv(RMul(I(n), num), den))

\* "if (dx is None and dy is None) and (nx is None and ny is None)":
\* the counts [nx, ny] after it
InBBoxDefault(xr, yr, dx, dy, nx, ny) ==
    IF dx = None /\ dy = None /\ nx = None /\ ny = None
    THEN IF RLe(xr, yr)
         THEN IF RIsZero(xr) THEN Raise("ZeroDivisionError")
              ELSE Ret([nx |-> Some(DefaultCells),
                        ny |-> Some(InferCount(DefaultCells, yr, xr))])
         ELSE IF RIsZero(yr) THEN Raise("ZeroDivisionError")
              ELSE Ret([nx |-> Some(InferCount(DefaultCells, xr, yr)),
                        ny |-> Some(DefaultCells)])
    ELSE Ret([nx |-> nx, ny |-> ny])

\* "if nx is None and ny is not None"
InBBoxInferNx(xr, yr, s) ==
    IF ~s.ok THEN s
    ELSE IF s.val.nx = None /\ s.val.ny # None
    THEN IF RIsZero(yr) THEN Raise("ZeroDivisionError")
         ELSE Ret([nx |-> Some(InferCount(s.val.ny[1], xr, yr)), ny |-> s.val.ny])
    ELSE s

\* "if ny is None and nx is not None"
InBBoxInferNy(xr, yr, s) ==
    IF ~s.ok THEN s
    ELSE IF s.val.ny = None /\ s.val.nx # None
    THEN IF RIsZero(xr) THEN Raise("ZeroDivisionError")
         ELSE Ret([nx |-> s.val.nx, ny |-> Some(InferCount(s.val.nx[1], yr, xr))])
    ELSE s

InBBoxPair(ax, ay) ==
    IF ~ax.ok THEN ax
    ELSE IF ~ay.ok THEN ay
    ELSE Ret([x |-> ax.val, y |-> ay.val])

\* the two _create_in_bbox_1d calls, dy defaulting to dx
InBBoxAxes(bbox, dx, dy, s) ==
    IF ~s.ok THEN s
    ELSE InBBoxPair(create_in_bbox_1d(bbox[1], bbox[3], dx, s.val.nx),
                    create_in_bbox_1d(bbox[2], bbox[4],
                                      IF dy = None THEN dx ELSE dy, s.val.ny))

InBBoxCounts(xr, yr, dx, dy, nx, ny) ==
    InBBoxInferNy(xr, yr,
        InBBoxInferNx(xr, yr, InBBoxDefault(xr, yr, dx, dy, nx, ny)))

\* bbox = <<left, bottom, right, top>>
create_in_bbox(bbox, dx, dy, nx, ny) ==
    IF ~parse_bbox(bbox).ok THEN parse_bbox(bbox)
    ELSE InBBoxAxes(bbox, dx, dy,
                    InBBoxCounts(RSub(bbox[3], bbox[1]), RSub(bbox[4], bbox[2]),
                                 dx, dy, nx, ny))

MkGrid2D(ax, ay, a) ==
    [kind |-> "Grid2D",
     x0 |-> ax.x0, dx |-> ax.dx, nx |-> ax.nx,
     y0 |-> ay.x0, dy |-> ay.dx, ny |-> ay.nx,
     origin |-> IF a.origin = None THEN <<I(0), I(0)>> ELSE a.origin[1],
     shift_origin_on_write |-> (a.origin = None),
     orientation |-> a.orientation,
     is_spectral |-> a.is_spectral,
     x_logarithmic |-> FALSE]

Grid2DInBBox(c, a) == IF ~c.ok THEN c ELSE Ret(MkGrid2D(c.val.x, c.val.y, a))

Grid2DFromY(px, py, a) == IF ~py.ok THEN py ELSE Ret(MkGrid2D(px.val, py.val, a))

\* "dy = self._dx if dy is None else dy", then the y axis
Grid2DFromX(px, a) ==
    IF ~px.ok THEN px
    ELSE Grid2DFromY(px,
                     parse_grid_axis(a.y.x, X0Default(a.y.x0),
                                     IF a.y.dx = None THEN Some(px.val.dx) ELSE a.y.dx,
                                     a.y.nx),
                     a)

\* a: [x, y: axis argument groups, bbox, origin: optional,
\*     orientation: float, is_spectral: bool]
Grid2D(a) ==
    IF a.bbox # None
    THEN IF ~RIsZero(X0Default(a.x.x0)) \/ ~RIsZero(X0Default(a.y.x0))
         THEN Raise("ValueError")
         ELSE Grid2DInBBox(create_in_bbox(a.bbox[1], a.x.dx, a.y.dx, a.x.nx, a.y.nx), a)
    ELSE Grid2DFromX(AxisOf(a.x), a)

Grid3DFrom(px, py, pz, a) ==
    IF ~px.ok THEN px
    ELSE IF ~py.ok THEN py
    ELSE IF ~pz.ok THEN pz
    ELSE Ret([kind |-> "Grid3D",
              x0 |-> px.val.x0, dx |-> px.val.dx, nx |-> px.val.nx,
              y0 |-> py.val.x0, dy |-> py.val.dx, ny |-> py.val.nx,
              z0 |-> pz.val.x0, dz |-> pz.val.dx, nz |-> pz.val.nx,
              origin |-> a.origin, orientation |-> a.orientation])

\* a: [x, y, z: axis argument groups, origin: pair, orientation: float]
Grid3D(a) == Grid3DFrom(AxisOf(a.x), AxisOf(a.y), AxisOf(a.z), a)

GeometryUndefined == [kind |-> "GeometryUndefined"]

-----------------------------------------------------------------------------
(* Grid2D properties *)

\* |orientation| > 1e-5
RotTolInv == 100000

is_rotated(g) == RLt(<<1, RotTolInv>>, RAbs(g.orientation))

RECURSIVE RPow(_, _)
RPow(a, n) == IF n = 0 THEN I(1) ELSE RMul(a, RPow(a, n - 1))

\* exp(log f0 + n (log(f0 freq_factor) - log f0)) for f0 > 0, freq_factor > 0
logarithmic_f(n, f0, freq_factor) ==
    [i \in 1..n |-> RMul(f0, RPow(freq_factor, i - 1))]

Shifted(xs, off) == [i \in 1..Len(xs) |-> RAdd(xs[i], off)]

\* x_local + origin unless rotated
Located(g, local, off) == IF is_rotated(g) THEN local ELSE Shifted(local, off)

Grid2D_x(g) ==
    IF g.is_spectral THEN logarithmic_f(g.nx, g.x0, g.dx)
    ELSE Located(g, Linspace(g.x0, RAdd(g.x0, RMul(g.dx, I(g.nx - 1))), g.nx),
                 g.origin[1])

Grid2D_y(g) ==
    Located(g, Linspace(g.y0, RAdd(g.y0, RMul(g.dy, I(g.ny - 1))), g.ny),
            g.origin[2])

\* (left, bottom, right, top) from the centers x, y; x[0] of an empty axis is
\* an IndexError
BboxOf(g, x, y) ==
    IF Len(x) = 0 \/ Len(y) = 0 THEN Raise("IndexError")
    ELSE Ret(<<RSub(x[1], RHalf(g.dx)),
               RSub(y[1], RHalf(g.dy)),
               RAdd(x[Len(x)], RHalf(g.dx)),
               RAdd(y[Len(y)], RHalf(g.dy))>>)

Grid2D_bbox(g) ==
    IF is_rotated(g) THEN Raise("NotImplementedError")
    ELSE IF g.is_spectral THEN Raise("NotImplementedError")
    ELSE BboxOf(g, Grid2D_x(g), Grid2D_y(g))

\* xinside & yinside for one point p against the box b
InsideBox(b, p) ==
    /\ RLe(b[1], p[1]) /\ RLe(p[1], b[3])
    /\ RLe(b[2], p[2]) /\ RLe(p[2], b[4])

ContainsIn(b, coords) ==
    IF ~b.ok THEN b
    ELSE Ret([k \in 1..Len(coords) |-> InsideBox(b.val, coords[k])])

\* coords: a sequence of <<x, y>> points; one boolean per point
contains(g, coords) == ContainsIn(Grid2D_bbox(g), coords)

\* np.argmin(np.abs(xs - v)): 0-based index of the first minimum, xs not empty
ArgMinAbs(xs, v) ==
    (CHOOSE i \in 1..Len(xs) :
        /\ \A j \in 1..Len(xs) : RLe(RAbs(RSub(xs[i], v)), RAbs(RSub(xs[j], v)))
        /\ \A j \in 1..(i - 1) : RLt(RAbs(RSub(xs[i], v)), RAbs(RSub(xs[j], v)))) - 1

XYIndex(inside, x, y, xy) ==
    IF ~inside.ok THEN inside
    ELSE Ret(<<[k \in 1..Len(xy) |->
                  IF inside.val[k] THEN ArgMinAbs(x, xy[k][1]) ELSE -1],
               [k \in 1..Len(xy) |->
                  IF inside.val[k] THEN ArgMinAbs(y, xy[k][2]) ELSE -1]>>)

xy_to_index(g, xy) == XYIndex(contains(g, xy), Grid2D_x(g), Grid2D_y(g), xy)

\* np.where(mask)[0] for mask = (xs >= lo) & (xs <= hi), as a set of 0-based indices
Where(xs, lo, hi) == {i - 1 : i \in {k \in 1..Len(xs) : RLe(lo, xs[k]) /\ RLe(xs[k], hi)}}

Min(S) == CHOOSE i \in S : \A j \in S : i <= j
Max(S) == CHOOSE i \in S : \A j \in S : i >= j

\* range(ii[0], ii[-1] + 1) and range(jj[0], jj[-1] + 1); range(a, b) is <<a, b>>
IndexRanges(ii, jj) ==
    IF ii = {} \/ jj = {} THEN Raise("IndexError")
    ELSE Ret(<<Some(<<Min(ii), Max(ii) + 1>>), Some(<<Min(jj), Max(jj) + 1>>)>>)

BBoxIndex(x, y, bbox) ==
    IF Len(x) = 0 THEN Raise("IndexError")
    ELSE IF RLt(x[Len(x)], bbox[1]) THEN RetWarn(<<None, None>>)
    ELSE IF Len(y) = 0 THEN Raise("IndexError")
    ELSE IF \/ RLt(y[Len(y)], bbox[2])
            \/ RLt(bbox[3], x[1]) \/ RLt(bbox[4], y[1])
    THEN RetWarn(<<None, None>>)
    ELSE IndexRanges(Where(x, bbox[1], bbox[3]), Where(y, bbox[2], bbox[4]))

bbox_to_index(g, bbox) ==
    IF Len(bbox) # 4 THEN Raise("ValueError")
    ELSE BBoxIndex(Grid2D_x(g), Grid2D_y(g), bbox)

\* x, y: None or <<[scalar |-> BOOLEAN, v |-> values]>>: a scalar s is held
\* as the one-element sequence <<s>>, an array as its sequence
atleast_1d(a) == a.v
ScalarOf(a) == a.v[1]

\* np.column_stack([np.atleast_1d(x), np.atleast_1d(y)])
column_stack(xs, ys) ==
    IF Len(xs) # Len(ys) THEN Raise("ValueError")
    ELSE Ret([k \in 1..Len(xs) |-> <<xs[k], ys[k]>>])

XYIndexOf(g, c) == IF ~c.ok THEN c ELSE xy_to_index(g, c.val)

find_index(g, x, y, coords, area) ==
    IF x = None /\ y # None /\ ~y[1].scalar THEN Raise("ValueError")
    ELSE IF y = None /\ x # None /\ ~x[1].scalar THEN Raise("ValueError")
    ELSE IF x # None /\ y # None
    THEN IF coords # None THEN Raise("ValueError")
         ELSE XYIndexOf(g, column_stack(atleast_1d(x[1]), atleast_1d(y[1])))
    ELSE IF x # None
    THEN IF g.nx = 0 THEN Raise("ValueError")
         ELSE Ret(<<Some(<<ArgMinAbs(Grid2D_x(g), ScalarOf(x[1]))>>), None>>)
    ELSE IF y # None
    THEN IF g.ny = 0 THEN Raise("ValueError")
         ELSE Ret(<<None, Some(<<ArgMinAbs(Grid2D_y(g), ScalarOf(y[1]))>>)>>)
    ELSE IF coords # None THEN XYIndexOf(g, Ret(coords[1]))
    ELSE IF area # None THEN bbox_to_index(g, area[1])
    ELSE Ret(None)

-----------------------------------------------------------------------------
(* isel *)

IntsToFloats(idx) == [k \in 1..Len(idx) |-> I(idx[k])]

\* np.any(d < 1) or not np.allclose(d, d[0]) for d = np.diff(idx):
\* "irregular", "regular", or the IndexError of d[0] on an empty d
StrideOf(d) ==
    IF \E k \in 1..Len(d) : RLt(d[k], I(1)) THEN "irregular"
    ELSE IF Len(d) = 0 THEN "IndexError"
    ELSE IF ~AllClose(d, d[1]) THEN "irregular"
    ELSE "regular"

StrideCheck(idx) == StrideOf(Diff(IntsToFloats(idx)))

Range(n) == [k \in 1..n |-> k - 1]

TripleAxis(x0, dx, nx) ==
    [x |-> None, x0 |-> Some(x0), dx |-> Some(dx), nx |-> Some(nx)]

ArrayAxis(xs) == [x |-> Some(xs), x0 |-> None, dx |-> None, nx |-> None]

\* the reduced Grid2D: x0, y0 are the offsets of the first selected cell
ReducedGrid2D(g, ii, jj, x0, y0, fold) ==
    Grid2D([x |-> TripleAxis(IF fold THEN I(0) ELSE x0,
                             RMul(g.dx, I(ii[2] - ii[1])), Len(ii)),
            y |-> TripleAxis(IF fold THEN I(0) ELSE y0,
                             RMul(g.dy, I(jj[2] - jj[1])), Len(jj)),
            bbox |-> None,
            origin |-> IF g.shift_origin_on_write THEN None
                       ELSE IF fold
                       THEN Some(<<RAdd(g.origin[1], x0), RAdd(g.origin[2], y0)>>)
                       ELSE Some(g.origin),
            orientation |-> g.orientation,
            is_spectral |-> g.is_spectral])

\* the offset is folded into the origin when the origin was left to default
FoldsOffsetWhenDefaulted(g) == ~is_rotated(g) /\ g.shift_origin_on_write

\* "if not self._is_rotated and not self._shift_origin_on_write"
FoldsOffset(g) == ~is_rotated(g) /\ ~g.shift_origin_on_write

IndexToGrid2D(g, ii, jj, x, y) ==
    IF ~(Len(ii) > 1 /\ Len(jj) > 1) THEN Raise("AssertionError")
    ELSE IF StrideCheck(ii) # "regular" \/ StrideCheck(jj) # "regular"
    THEN RetWarn(GeometryUndefined)
    ELSE IF ii[1] >= Len(x) \/ jj[1] >= Len(y) THEN Raise("IndexError")
    ELSE ReducedGrid2D(g, ii, jj,
                       RSub(x[ii[1] + 1], x[1]), RSub(y[jj[1] + 1], y[1]),
                       FoldsOffset(g))

\* ii, jj: None or <<index array>> (0-based indices, all >= 0)
index_to_Grid2D(g, ii, jj) ==
    IndexToGrid2D(g, IF ii = None THEN Range(g.nx) ELSE ii[1],
                     IF jj = None THEN Range(g.ny) ELSE jj[1],
                  Grid2D_x(g), Grid2D_y(g))

\* the Grid1D along x (axis 0) or along y, with its node coordinates
IselScalar(k, axis, x, y) ==
    IF axis = 0
    THEN IF k >= Len(y) THEN Raise("IndexError")
         ELSE Grid1D(ArrayAxis(x), <<I(0), I(0)>>, I(0),
                     Some([i \in 1..Len(x) |-> <<x[i], y[k + 1]>>]))
    ELSE IF k >= Len(x) THEN Raise("IndexError")
         ELSE Grid1D(ArrayAxis(y), <<I(0), I(0)>>, I(0),
                     Some([i \in 1..Len(y) |-> <<x[k + 1], y[i]>>]))

IselArray(g, idx, axis, c) ==
    IF c = "IndexError" THEN Raise("IndexError")
    ELSE IF c = "irregular" THEN Ret(GeometryUndefined)
    ELSE index_to_Grid2D(g, IF axis = 1 THEN Some(idx) ELSE None,
                            IF axis = 0 THEN Some(idx) ELSE None)

\* idx: [scalar |-> BOOLEAN, v |-> indices], indices >= 0, a scalar k held as <<k>>
Grid2D_isel(g, idx, axis) ==
    IF ~idx.scalar THEN IselArray(g, idx.v, axis, StrideCheck(idx.v))
    ELSE IselScalar(ScalarOf(idx), axis, Grid2D_x(g), Grid2D_y(g))

-----------------------------------------------------------------------------
(* Grid1D: nodes and interpolant *)

Grid1D_x(g) == Linspace(g.x0, RAdd(g.x0, RMul(g.dx, I(g.nx - 1))), g.nx)

\* d = np.abs(self.x - x)
Distances(x, p) == [i \in 1..Len(x) |-> RAbs(RSub(x[i], p))]

\* np.argsort(d)[0:2] for two or more nodes, 0-based: the order of equal
\* distances is whatever the sort leaves, so every order is an outcome
ArgSortFirstTwo(d) ==
    {<<i - 1, j - 1>> : <<i, j>> \in
        {ij \in (1..Len(d)) \X (1..Len(d)) :
            /\ ij[1] # ij[2]
            /\ \A k \in 1..Len(d) : RLe(d[ij[1]], d[k])
            /\ \A k \in (1..Len(d)) \ {ij[1]} : RLe(d[ij[2]], d[k])}}

\* weights = 1 - d[ids]
Weights(d, ids) == <<RSub(I(1), d[ids[1] + 1]), RSub(I(1), d[ids[2] + 1])>>

\* assert np.allclose(weights.sum(), 1.0)
Interpolant(ids, w) ==
    IF ~IsClose(RAdd(w[1], w[2]), I(1)) THEN Raise("AssertionError")
    ELSE Ret([ids |-> ids, weights |-> w])

\* the possible outcomes; with fewer than two nodes one of the two
\* assertions fails
InterpolantsOf(d) ==
    IF Len(d) < 2 THEN {Raise("AssertionError")}
    ELSE {Interpolant(ids, Weights(d, ids)) : ids \in ArgSortFirstTwo(d)}

get_spatial_interpolant(g, p) == InterpolantsOf(Distances(Grid1D_x(g), p))

-----------------------------------------------------------------------------
(* Grid2D: element table *)

Quad(n1, n2) == <<n1, n1 + 1, n2 + 1, n2>>

\* the row stride is taken as the number of cells per row, not of nodes
ElemAtCellStride(elx, ely, nx, index_base) ==
    Quad(ely * (nx - 1) + elx + index_base,
         (ely + 1) * (nx - 1) + elx + index_base)

\* n1 = ely * nx + elx + index_base, n2 = (ely + 1) * nx + elx + index_base
ElemAt(elx, ely, nx, index_base) ==
    Quad(ely * nx + elx + index_base, (ely + 1) * nx + elx + index_base)

\* range(n - 1) has max(n - 1, 0) elements
Cells(n) == IF n >= 1 THEN n - 1 ELSE 0

\* the k-th appended element: columns elx outermost, rows ely innermost
to_element_table(nx, ny, index_base) ==
    [k \in 1..(Cells(nx) * Cells(ny)) |->
        ElemAt((k - 1) \div Cells(ny), (k - 1) % Cells(ny), nx, index_base)]

-----------------------------------------------------------------------------
(* Grid2D: nodes and mesh export *)

\* [left, *xinner, right] for two or more centers
NodesBetween(x) ==
    [i \in 1..(Len(x) + 1) |->
        IF i = 1 THEN RSub(x[1], RHalf(RSub(x[2], x[1])))
        ELSE IF i = Len(x) + 1
        THEN RAdd(x[Len(x)], RHalf(RSub(x[Len(x)], x[Len(x) - 1])))
        ELSE RHalf(RAdd(x[i], x[i - 1]))]

centers_to_nodes(x) ==
    IF Len(x) = 1 THEN Ret(<<RSub(x[1], Rat(1, 2)), RAdd(x[1], Rat(1, 2))>>)
    ELSE IF Len(x) = 0 THEN Raise("IndexError")
    ELSE Ret(NodesBetween(x))

\* np.meshgrid(x, y) reshaped and stacked: row-major, x varying fastest
Meshgrid(x, y) ==
    [k \in 1..(Len(x) * Len(y)) |->
        <<x[((k - 1) % Len(x)) + 1], y[((k - 1) \div Len(x)) + 1]>>]

\* gn = Grid2D(x=xn, y=yn)
NodeGrid(xn, yn) ==
    IF ~xn.ok THEN xn
    ELSE IF ~yn.ok THEN yn
    ELSE Grid2D([x |-> ArrayAxis(xn.val), y |-> ArrayAxis(yn.val),
                 bbox |-> None, origin |-> None, orientation |-> I(0),
                 is_spectral |-> FALSE])

\* the five assignments to codes, the last one that applies winning;
\* bb = gn.bbox = (left, bottom, right, top)
CodeOf(p, bb) ==
    IF p[2] = bb[4] /\ p[1] = bb[1] THEN 5
    ELSE IF p[1] = bb[1] THEN 2
    ELSE IF p[2] = bb[2] THEN 3
    ELSE IF p[1] = bb[3] THEN 4
    ELSE IF p[2] = bb[4] THEN 5
    ELSE 0

\* what is handed to the mesh builder
MeshOf(gn, xy, bb) ==
    Ret([nodes |-> xy,
         codes |-> [k \in 1..Len(xy) |-> CodeOf(xy[k], bb)],
         elements |-> to_element_table(gn.nx, gn.ny, 1)])

\* z: None, a scalar, or an array that must have one value per node
MeshWithZ(gn, z, bb) ==
    IF z # None /\ ~z[1].scalar /\ Len(z[1].v) # gn.nx * gn.ny
    THEN Raise("ValueError")
    ELSE IF ~bb.ok THEN bb
    ELSE MeshOf(gn, Meshgrid(Grid2D_x(gn), Grid2D_y(gn)), bb.val)

MeshOfNodeGrid(gn, z) ==
    IF ~gn.ok THEN gn ELSE MeshWithZ(gn.val, z, Grid2D_bbox(gn.val))

to_mesh(g, z) ==
    MeshOfNodeGrid(NodeGrid(centers_to_nodes(Grid2D_x(g)),
                            centers_to_nodes(Grid2D_y(g))), z)

-----------------------------------------------------------------------------
(* Grid2D: meshgrid cache and in-place changes; g is the object with its cache *)

\* np.meshgrid(x, y), each array flattened row by row
MeshXX(x, y) == [k \in 1..(Len(x) * Len(y)) |-> x[((k - 1) % Len(x)) + 1]]
MeshYY(x, y) == [k \in 1..(Len(x) * Len(y)) |-> y[((k - 1) \div Len(x)) + 1]]

create_meshgrid(g, x, y) ==
    [g EXCEPT !.xx = Some(MeshXX(x, y)), !.yy = Some(MeshYY(x, y))]

\* the object after reading _xx, and after reading _yy
AfterXX(g) == IF g.xx = None THEN create_meshgrid(g, Grid2D_x(g), Grid2D_y(g)) ELSE g
AfterYY(g) == IF g.yy = None THEN create_meshgrid(g, Grid2D_x(g), Grid2D_y(g)) ELSE g

\* np.column_stack([xcol, ycol])
StackXY(xx, yy) == [k \in 1..Len(xx) |-> <<xx[k], yy[k]>>]

\* xy reads _xx, then _yy
Grid2D_xy(g) == StackXY(AfterXX(g).xx[1], AfterYY(AfterXX(g)).yy[1])

\* the is_spectral setter
set_is_spectral(g, value) ==
    IF g.is_spectral /\ ~value
    THEN [g EXCEPT !.is_spectral = FALSE, !.x_logarithmic = FALSE]
    ELSE IF ~g.is_spectral /\ value
    THEN [g EXCEPT !.is_spectral = TRUE, !.x_logarithmic = RLt(I(1), g.dx)]
    ELSE g

shift_x0y0_to_origin(g) ==
    IF is_rotated(g) \/ g.is_spectral THEN Raise("ValueError")
    ELSE Ret([g EXCEPT !.x0 = I(0), !.y0 = I(0),
                       !.origin = <<RAdd(g.origin[1], g.x0),
                                    RAdd(g.origin[2], g.y0)>>])

-----------------------------------------------------------------------------
(* Grid3D *)

Grid3D_x(g) == Linspace(g.x0, RAdd(g.x0, RMul(g.dx, I(g.nx - 1))), g.nx)
Grid3D_y(g) == Linspace(g.y0, RAdd(g.y0, RMul(g.dy, I(g.ny - 1))), g.ny)
Grid3D_z(g) == Linspace(g.z0, RAdd(g.z0, RMul(g.dz, I(g.nz - 1))), g.nz)

\* xs[idx] for an index array
Take(xs, idx) == [k \in 1..Len(idx) |-> xs[idx[k] + 1]]
InRange(xs, idx) == \A k \in 1..Len(idx) : idx[k] < Len(xs)

\* Grid2D(x=xs, y=ys) with every other argument defaulted
PlainGrid2D(xs, ys) ==
    Grid2D([x |-> ArrayAxis(xs), y |-> ArrayAxis(ys), bbox |-> None,
            origin |-> None, orientation |-> I(0), is_spectral |-> FALSE])

Isel3DArray(idx, axis, c, x, y, z) ==
    IF c = "IndexError" THEN Raise("IndexError")
    ELSE IF c = "irregular" THEN Ret(GeometryUndefined)
    ELSE IF ~InRange(IF axis = 2 THEN x ELSE IF axis = 1 THEN y ELSE z, idx)
    THEN Raise("IndexError")
    ELSE Grid3D([x |-> ArrayAxis(IF axis = 2 THEN Take(x, idx) ELSE x),
                 y |-> ArrayAxis(IF axis = 1 THEN Take(y, idx) ELSE y),
                 z |-> ArrayAxis(IF axis = 0 THEN Take(z, idx) ELSE z),
                 origin |-> <<I(0), I(0)>>,
                 orientation |-> I(0)])

\* axis 0: x-y grid with the origin added; axis 1: x-z grid; axis 2: y-z grid
Isel3DScalar(g, axis, x, y, z) ==
    PlainGrid2D(IF axis = 0 THEN Shifted(x, g.origin[1])
                ELSE IF axis = 1 THEN x ELSE y,
                IF axis = 0 THEN Shifted(y, g.origin[2]) ELSE z)

Grid3D_isel(g, idx, axis) ==
    IF ~idx.scalar
    THEN Isel3DArray(idx.v, axis, StrideCheck(idx.v),
                     Grid3D_x(g), Grid3D_y(g), Grid3D_z(g))
    ELSE Isel3DScalar(g, axis, Grid3D_x(g), Grid3D_y(g), Grid3D_z(g))

\* the branch for two or more (or no) layers, c the check of np.diff(g.z[layers])
LayersGrid3D(g, zsel, c) ==
    IF c = "IndexError" THEN Raise("IndexError")
    ELSE IF c = "irregular" THEN RetWarn(GeometryUndefined)
    ELSE Grid3D([x |-> ArrayAxis(Grid3D_x(g)), y |-> ArrayAxis(Grid3D_y(g)),
                 z |-> ArrayAxis(zsel), origin |-> g.origin,
                 orientation |-> I(0)])

\* layers: None or <<layer indices>> (0-based, all >= 0)
geometry_for_layers(g, layers) ==
    IF layers = None THEN Ret(g)
    ELSE IF Len(layers[1]) = 1
    THEN PlainGrid2D(Shifted(Grid3D_x(g), g.origin[1]),
                     Shifted(Grid3D_y(g), g.origin[2]))
    ELSE IF ~InRange(Grid3D_z(g), layers[1]) THEN Raise("IndexError")
    ELSE LayersGrid3D(g, Take(Grid3D_z(g), layers[1]),
                      StrideOf(Diff(Take(Grid3D_z(g), layers[1]))))

-----------------------------------------------------------------------------
(* Dfs1.read: f is the open file [nt, n_items, dt]; a row of xNum values is
   held as the one number that tells the rows apart; times are seconds
   after the start time *)

\* dfs.ReadItemTimeStep(item_number + 1, it): .Data and .Time
ItemData(f, item, it) == 10 * item + it
ItemTime(f, it) == it * f.dt

\* data_list[item][it, :] = d and t_seconds[it] = itemdata.Time index the
\* len(time_steps) rows by the file step it
RowOutOfRange(ts) == \E i \in 1..Len(ts) : ts[i] >= Len(ts)

\* rows are written at the file step: with distinct steps, all in range,
\* every row r is written, with the data of file step r
Dfs1_read(f, ts) ==
    IF f.nt = 0 THEN Raise("Warning")
    ELSE IF RowOutOfRange(ts) THEN Raise("IndexError")
    ELSE Ret([data |-> [item \in 1..f.n_items |->
                           [r \in 1..Len(ts) |-> ItemData(f, item - 1, r - 1)]],
              time |-> [r \in 1..Len(ts) |-> ItemTime(f, r - 1)]])

-----------------------------------------------------------------------------
(* Inputs *)

Coords == {I(0), I(1), I(2)}

Arrays == UNION {[1..n -> Coords] : n \in 0..MaxLen}

OptX0 == {None, Some(I(1))}
OptDx == {None, Some(I(-1)), Some(I(0)), Some(Rat(1, 2)), Some(I(1))}
OptNx == {None} \cup {Some(k) : k \in 0..MaxN}

Grid1DInputs ==
    {ArrayAxis(a) : a \in Arrays}
    \cup {[x |-> None, x0 |-> x0, dx |-> dx, nx |-> nx] :
            x0 \in OptX0, dx \in OptDx, nx \in OptNx}

Tri(x0, dx, nx) == [x |-> None, x0 |-> x0, dx |-> dx, nx |-> nx]

AxisChoices ==
    {ArrayAxis(<<I(0), I(1), I(2)>>), ArrayAxis(<<I(1), I(1), I(1)>>),
     ArrayAxis(<<I(0), I(1), I(0)>>), ArrayAxis(<<I(2), I(0)>>),
     ArrayAxis(<<>>), ArrayAxis(<<I(2)>>),
     Tri(None, Some(I(1)), Some(3)), Tri(Some(I(1)), Some(Rat(1, 2)), Some(2)),
     Tri(None, Some(I(1)), Some(0)), Tri(None, None, Some(2)),
     Tri(None, Some(I(2)), None)}

\* a spectral x-axis has f0 = x0 > 0 and freq_factor = dx > 0
SpectralChoices ==
    {Tri(Some(I(1)), Some(I(2)), Some(3)), Tri(Some(I(1)), Some(Rat(1, 2)), Some(2))}

Origins == {None, Some(<<I(1), I(2)>>)}
Orientations == {I(0), Rat(1, 200000), I(-90)}

Grid2DInputs ==
    {[x |-> ax, y |-> ay, bbox |-> None, origin |-> o, orientation |-> r,
      is_spectral |-> FALSE] :
        ax \in AxisChoices, ay \in AxisChoices, o \in Origins, r \in Orientations}
    \cup
    {[x |-> ax, y |-> ay, bbox |-> None, origin |-> o, orientation |-> r,
      is_spectral |-> TRUE] :
        ax \in SpectralChoices, ay \in AxisChoices, o \in Origins, r \in Orientations}

BBoxes ==
    {<<l, I(0), r, t>> : l \in {I(0), I(1)}, r \in {I(0), I(1), I(3)},
                         t \in {I(0), I(3)}}
    \cup {<<I(0), I(1), I(3), I(0)>>}

\* (x0, y0) as supplied with a bbox
BBoxX0Y0 == {<<None, None>>, <<Some(I(0)), None>>, <<None, Some(I(1))>>,
             <<Some(I(1)), Some(I(0))>>}

BBoxInputs ==
    {[x |-> Tri(xy[1], dx, nx), y |-> Tri(xy[2], dy, ny), bbox |-> Some(bb),
      origin |-> o, orientation |-> I(0), is_spectral |-> FALSE] :
        bb \in BBoxes, xy \in BBoxX0Y0,
        dx \in {None, Some(Rat(1, 2)), Some(I(2))}, dy \in {None, Some(I(1))},
        nx \in {None, Some(0), Some(2)}, ny \in {None, Some(3)},
        o \in Origins}

Axis3Choices ==
    {ArrayAxis(<<I(0), I(1), I(2)>>), ArrayAxis(<<I(1), I(1), I(1)>>),
     Tri(None, Some(Rat(1, 2)), Some(3)), Tri(None, Some(I(1)), Some(0)),
     Tri(None, None, Some(2))}

Grid3DInputs ==
    {[x |-> ax, y |-> ay, z |-> az, origin |-> o, orientation |-> I(0)] :
        ax \in Axis3Choices, ay \in Axis3Choices, az \in Axis3Choices,
        o \in {<<I(0), I(0)>>, <<I(1), I(2)>>}}

Scalar(v) == [scalar |-> TRUE, v |-> <<v>>]
Array(v) == [scalar |-> FALSE, v |-> v]

PtX == {I(-1), I(0), Rat(1, 2), I(1), I(2), I(4)}
PtY == {I(0), Rat(1, 2), I(3)}
Points == {<<px, py>> : px \in PtX, py \in PtY}
TwoPoints == {<<I(0), I(0)>>, <<I(4), I(3)>>}

CoordLists ==
    {<<p>> : p \in Points} \cup {<<p, q>> : p \in TwoPoints, q \in TwoPoints}

\* areas (x0, y0, x1, y1): around, beside and between cell centers
AreaX == {<<I(-1), I(4)>>, <<Rat(1, 4), Rat(3, 4)>>, <<Rat(1, 2), I(1)>>,
          <<I(4), I(5)>>}
AreaY == {<<I(-1), I(4)>>, <<Rat(1, 4), Rat(1, 3)>>, <<I(-2), I(-1)>>}
Areas == {<<ax[1], ay[1], ax[2], ay[2]>> : ax \in AreaX, ay \in AreaY}

FI(x, y, coords, area) == [x |-> x, y |-> y, coords |-> coords, area |-> area]

FindIndexInputs ==
    {FI(None, None, Some(c), None) : c \in CoordLists}
    \cup {FI(Some(Scalar(p[1])), Some(Scalar(p[2])), None, None) : p \in TwoPoints}
    \cup {FI(Some(Array(<<I(0), I(4)>>)), Some(Array(<<I(0), I(3)>>)), None, None),
          FI(Some(Array(<<I(0), I(4)>>)), Some(Scalar(I(0))), None, None)}
    \cup {FI(Some(Scalar(v)), None, None, None) : v \in PtX}
    \cup {FI(None, Some(Scalar(v)), None, None) : v \in PtY}
    \cup {FI(Some(Array(<<I(0)>>)), None, None, None),
          FI(None, Some(Array(<<I(0)>>)), None, None)}
    \cup {FI(x, y, Some(<<<<I(0), I(0)>>>>), None) :
            x \in {None, Some(Scalar(I(1)))}, y \in {None, Some(Scalar(I(0)))}}
    \cup {FI(None, None, None, Some(a)) : a \in Areas}
    \cup {FI(None, None, None, None)}

\* bathymetry: default, a scalar, an array of the wrong length
MeshZ == {None, Some(Scalar(I(1))), Some(Array(<<I(0)>>))}

\* points on, between and beyond the nodes
InterpPoints ==
    {I(0), Rat(1, 4), Rat(1, 2), Rat(3, 4), I(1), Rat(5, 4), Rat(3, 2), I(3)}

LayerInputs ==
    {None} \cup {Some(l) : l \in {<< >>, <<0>>, <<2>>, <<0, 1>>, <<1, 2>>, <<0, 2>>,
                                 <<2, 1>>, <<1, 1>>, <<0, 1, 2>>, <<0, 2, 1>>,
                                 <<1, 3>>}}

Dfs1Files ==
    {[kind |-> "Dfs1", nt |-> nt, n_items |-> n, dt |-> dt] :
        nt \in 0..MaxSteps, n \in {1, 2}, dt \in {1, 60}}

\* the selected time steps: distinct steps of the file, in any order
StepSelections(nt) ==
    {ts \in UNION {[1..n -> 0..(nt - 1)] : n \in 1..nt} :
        \A i, j \in 1..Len(ts) : i # j => ts[i] # ts[j]}

IdxArrays ==
    {<<0>>, <<2>>, <<0, 1>>, <<0, 2>>, <<1, 2>>, <<1, 3>>, <<2, 1>>, <<1, 1>>,
     <<0, 1, 2>>, <<0, 1, 3>>, <<0, 2, 1>>}

IselInputs ==
    {Array(v) : v \in IdxArrays} \cup {Scalar(k) : k \in {0, 1, 3}}

-----------------------------------------------------------------------------
(* State machine: one geometry is constructed, then queried once *)

NoGeom == [kind |-> "none"]
NoCall == [op |-> "none"]

Init ==
    /\ geom = NoGeom
    /\ ctor = NoCall
    /\ call = NoCall
    /\ live = NoGeom

\* what a constructor call leaves behind: the object, or nothing when it raises
Built(r) == IF r.ok THEN r.val ELSE NoGeom

\* the mutable Grid2D object: its fields and the meshgrid cache
\* ("self.__xx = None", "self.__yy = None")
Object(g) == IF g.kind = "Grid2D" THEN g @@ [xx |-> None, yy |-> None] ELSE NoGeom

CtorCall(op, a, r) ==
    [op |-> op, args |-> a, ok |-> r.ok, exc |-> IF r.ok THEN "" ELSE r.exc]

NewGrid1D ==
    /\ ctor = NoCall
    /\ \E a \in Grid1DInputs :
        /\ geom' = Built(Grid1D(a, <<I(0), I(0)>>, I(0), None))
        /\ ctor' = CtorCall("Grid1D", a, Grid1D(a, <<I(0), I(0)>>, I(0), None))
    /\ UNCHANGED <<call, live>>

NewGrid2D ==
    /\ ctor = NoCall
    /\ \E a \in Grid2DInputs :
        /\ geom' = Built(Grid2D(a))
        /\ ctor' = CtorCall("Grid2D", a, Grid2D(a))
        /\ live' = Object(Built(Grid2D(a)))
    /\ UNCHANGED call

NewGrid2DInBBox ==
    /\ ctor = NoCall
    /\ \E a \in BBoxInputs :
        /\ geom' = Built(Grid2D(a))
        /\ ctor' = CtorCall("Grid2D", a, Grid2D(a))
        /\ live' = Object(Built(Grid2D(a)))
    /\ UNCHANGED call

NewGrid3D ==
    /\ ctor = NoCall
    /\ \E a \in Grid3DInputs :
        /\ geom' = Built(Grid3D(a))
        /\ ctor' = CtorCall("Grid3D", a, Grid3D(a))
    /\ UNCHANGED <<call, live>>

Bbox ==
    /\ geom.kind = "Grid2D"
    /\ call = NoCall
    /\ call' = [op |-> "bbox", args |-> <<>>, out |-> Grid2D_bbox(geom)]
    /\ UNCHANGED <<geom, ctor, live>>

FindIndex ==
    /\ geom.kind = "Grid2D"
    /\ call = NoCall
    /\ \E a \in FindIndexInputs :
        call' = [op |-> "find_index", args |-> a,
                 out |-> find_index(geom, a.x, a.y, a.coords, a.area)]
    /\ UNCHANGED <<geom, ctor, live>>

Isel2D ==
    /\ geom.kind = "Grid2D"
    /\ call = NoCall
    /\ \E idx \in IselInputs, axis \in {0, 1} :
        call' = [op |-> "isel", args |-> [idx |-> idx, axis |-> axis],
                 out |-> Grid2D_isel(geom, idx, axis)]
    /\ UNCHANGED <<geom, ctor, live>>

Isel3D ==
    /\ geom.kind = "Grid3D"
    /\ call = NoCall
    /\ \E idx \in IselInputs, axis \in {0, 1, 2} :
        call' = [op |-> "isel", args |-> [idx |-> idx, axis |-> axis],
                 out |-> Grid3D_isel(geom, idx, axis)]
    /\ UNCHANGED <<geom, ctor, live>>

ElementTable ==
    /\ geom.kind = "Grid2D"
    /\ call = NoCall
    /\ \E index_base \in {0, 1} :
        call' = [op |-> "to_element_table", args |-> [index_base |-> index_base],
                 out |-> Ret(to_element_table(geom.nx, geom.ny, index_base))]
    /\ UNCHANGED <<geom, ctor, live>>

ToMesh ==
    /\ geom.kind = "Grid2D"
    /\ call = NoCall
    /\ \E z \in MeshZ :
        call' = [op |-> "to_mesh", args |-> [z |-> z], out |-> to_mesh(geom, z)]
    /\ UNCHANGED <<geom, ctor, live>>

SpatialInterpolant ==
    /\ geom.kind = "Grid1D"
    /\ call = NoCall
    /\ \E p \in InterpPoints :
        \E r \in get_spatial_interpolant(geom, p) :
            call' = [op |-> "get_spatial_interpolant", args |-> [point |-> p],
                     out |-> r]
    /\ UNCHANGED <<geom, ctor, live>>

GeometryForLayers ==
    /\ geom.kind = "Grid3D"
    /\ call = NoCall
    /\ \E layers \in LayerInputs :
        call' = [op |-> "geometry_for_layers", args |-> [layers |-> layers],
                 out |-> geometry_for_layers(geom, layers)]
    /\ UNCHANGED <<geom, ctor, live>>

\* the operations on the object follow one another in any order
OnObject ==
    /\ live.kind = "Grid2D"
    /\ call.op \in {"none", "xy", "_xx", "_yy", "is_spectral", "_shift_x0y0_to_origin"}

ReadXY ==
    /\ OnObject
    /\ call' = [op |-> "xy", args |-> <<>>, out |-> Ret(Grid2D_xy(live))]
    /\ live' = AfterYY(AfterXX(live))
    /\ UNCHANGED <<geom, ctor>>

ReadXX ==
    /\ OnObject
    /\ call' = [op |-> "_xx", args |-> <<>>, out |-> Ret(AfterXX(live).xx[1])]
    /\ live' = AfterXX(live)
    /\ UNCHANGED <<geom, ctor>>

ReadYY ==
    /\ OnObject
    /\ call' = [op |-> "_yy", args |-> <<>>, out |-> Ret(AfterYY(live).yy[1])]
    /\ live' = AfterYY(live)
    /\ UNCHANGED <<geom, ctor>>

\* a spectral x axis is np.logspace from log(x0): x0 > 0 and dx > 0; the
\* frequency axes taken are the short ones
SetSpectral ==
    /\ OnObject
    /\ \E value \in BOOLEAN :
        /\ value => RLt(I(0), live.x0) /\ RLt(I(0), live.dx) /\ live.nx <= MaxN
        /\ call' = [op |-> "is_spectral", args |-> [value |-> value],
                    out |-> Ret(None)]
        /\ live' = set_is_spectral(live, value)
    /\ UNCHANGED <<geom, ctor>>

ShiftX0Y0 ==
    /\ OnObject
    /\ call' = [op |-> "_shift_x0y0_to_origin", args |-> <<>>,
                out |-> IF shift_x0y0_to_origin(live).ok THEN Ret(None)
                        ELSE shift_x0y0_to_origin(live)]
    /\ live' = IF shift_x0y0_to_origin(live).ok
               THEN shift_x0y0_to_origin(live).val ELSE live
    /\ UNCHANGED <<geom, ctor>>

OpenDfs1 ==
    /\ ctor = NoCall
    /\ \E f \in Dfs1Files :
        /\ geom' = f
        /\ ctor' = [op |-> "Dfs1", args |-> f, ok |-> TRUE, exc |-> ""]
    /\ UNCHANGED <<call, live>>

\* time_steps is the selection as get_valid_items_and_timesteps returns it;
\* a static file is read with the selection [0]
ReadDfs1 ==
    /\ geom.kind = "Dfs1"
    /\ call = NoCall
    /\ \E ts \in IF geom.nt = 0 THEN {<<0>>} ELSE StepSelections(geom.nt) :
        call' = [op |-> "read", args |-> [time_steps |-> ts],
                 out |-> Dfs1_read(geom, ts)]
    /\ UNCHANGED <<geom, ctor, live>>

Next ==
    \/ NewGrid1D
    \/ NewGrid2D
    \/ NewGrid2DInBBox
    \/ NewGrid3D
    \/ Bbox
    \/ FindIndex
    \/ Isel2D
    \/ Isel3D
    \/ ElementTable
    \/ ToMesh
    \/ SpatialInterpolant
    \/ GeometryForLayers
    \/ ReadXY
    \/ ReadXX
    \/ ReadYY
    \/ SetSpectral
    \/ ShiftX0Y0
    \/ OpenDfs1
    \/ ReadDfs1

Spec == Init /\ [][Next]_vars

-----------------------------------------------------------------------------
(* Claims *)

\* The code has no GeometryError or NotSupported class.  Failures of a
\* construction are raised as ValueError (a non-equidistant array as
\* NotImplementedError), unsupported operations as NotImplementedError;
\* these are the exceptions that count as the two categories.
GeometryError == {"ValueError", "NotImplementedError"}
NotSupported == {"NotImplementedError"}

AxisValid(dx, n) == RLt(I(0), dx) /\ n >= 1

\* cell centers of an axis: x0 + i dx + offset, i = 0 .. n-1
Centers(x0, dx, n, off) == [i \in 1..n |-> RAdd(RAdd(x0, RMul(I(i - 1), dx)), off)]
CentersX(g) == Centers(g.x0, g.dx, g.nx, g.origin[1])
CentersY(g) == Centers(g.y0, g.dy, g.ny, g.origin[2])

\* C1: every Grid1D, Grid2D or Grid3D whose construction succeeds has, on
\* each of its axes, spacing > 0 and count >= 1.
C1_ConstructedAxesValid ==
    /\ geom.kind = "Grid1D" => AxisValid(geom.dx, geom.nx)
    /\ geom.kind = "Grid2D" =>
          AxisValid(geom.dx, geom.nx) /\ AxisValid(geom.dy, geom.ny)
    /\ geom.kind = "Grid3D" =>
          /\ AxisValid(geom.dx, geom.nx)
          /\ AxisValid(geom.dy, geom.ny)
          /\ AxisValid(geom.dz, geom.nz)

ExactlyEquidistant(x) ==
    \A i \in 1..(Len(x) - 1) : RSub(x[i + 1], x[i]) = RSub(x[2], x[1])
Decreasing(x) == \E i \in 1..(Len(x) - 1) : RLt(x[i + 1], x[i])

\* C2: the axis parser fails with GeometryError, and no grid is produced,
\* when the array is not equidistant or is decreasing, and when no array is
\* given and the count is missing, the spacing is missing or the spacing is
\* <= 0; for every other input it returns (origin, spacing, count), with
\* origin = first element, count = array length and spacing 1.0 for a
\* single-point array.
C2_AxisParserOutcome ==
    ctor.op = "Grid1D" =>
        IF ctor.args.x # None
        THEN IF ~ExactlyEquidistant(ctor.args.x[1]) \/ Decreasing(ctor.args.x[1])
             THEN ~ctor.ok /\ ctor.exc \in GeometryError /\ geom.kind = "none"
             ELSE /\ ctor.ok
                  /\ geom.x0 = ctor.args.x[1][1]
                  /\ geom.nx = Len(ctor.args.x[1])
                  /\ Len(ctor.args.x[1]) = 1 => geom.dx = I(1)
        ELSE IF \/ ctor.args.nx = None
                \/ ctor.args.dx = None
                \/ RLe(ctor.args.dx[1], I(0))
             THEN ~ctor.ok /\ ctor.exc \in GeometryError /\ geom.kind = "none"
             ELSE /\ ctor.ok
                  /\ geom.x0 = X0Default(ctor.args.x0)
                  /\ geom.dx = ctor.args.dx[1]
                  /\ geom.nx = ctor.args.nx[1]

\* count = ceil((right - left) / dx), origin = new left + dx / 2 with
\* new left = midpoint - count dx / 2
C3Axis(left, right, dx, x0, n) ==
    /\ n = RCeil(RDiv(RSub(right, left), dx))
    /\ x0 = RAdd(RSub(RHalf(RAdd(left, right)), RHalf(RMul(I(n), dx))), RHalf(dx))

\* [lo, hi] has width n dx, the midpoint of [left, right], contains
\* [left, right], and is [left, right] when n dx = right - left
C3Box(left, right, dx, n, lo, hi) ==
    /\ RSub(hi, lo) = RMul(I(n), dx)
    /\ RAdd(lo, hi) = RAdd(left, right)
    /\ RLe(lo, left) /\ RLe(right, hi)
    /\ RMul(I(n), dx) = RSub(right, left) => lo = left /\ hi = right

EffectiveDy(a) == IF a.y.dx = None THEN a.x.dx ELSE a.y.dx

\* C3: a Grid2D built from a bounding box with a spacing given for an axis
\* has count ceil(extent / spacing) and origin (new left + spacing / 2) on
\* that axis, and its bbox on that axis has width count * spacing, the
\* midpoint of the supplied interval, and contains it (equals it when the
\* spacing divides the extent).
C3_BBoxSpacingFit ==
    (ctor.op = "Grid2D" /\ ctor.args.bbox # None /\ ctor.ok) =>
        /\ ctor.args.x.dx # None =>
            /\ C3Axis(ctor.args.bbox[1][1], ctor.args.bbox[1][3],
                      ctor.args.x.dx[1], geom.x0, geom.nx)
            /\ call.op = "bbox" =>
                /\ call.out.ok
                /\ C3Box(ctor.args.bbox[1][1], ctor.args.bbox[1][3],
                         ctor.args.x.dx[1], geom.nx,
                         call.out.val[1], call.out.val[3])
        /\ EffectiveDy(ctor.args) # None =>
            /\ C3Axis(ctor.args.bbox[1][2], ctor.args.bbox[1][4],
                      EffectiveDy(ctor.args)[1], geom.y0, geom.ny)
            /\ call.op = "bbox" =>
                /\ call.out.ok
                /\ C3Box(ctor.args.bbox[1][2], ctor.args.bbox[1][4],
                         EffectiveDy(ctor.args)[1], geom.ny,
                         call.out.val[2], call.out.val[4])

ValidBBox(bb) == RLe(bb[1], bb[3]) /\ RLe(bb[2], bb[4])

\* C4: from any valid bounding box with no spacing and no count, the
\* construction succeeds, the shorter extent gets 10 cells and the other
\* axis ceil(10 * longer / shorter); with only one count given (no
\* spacing), the other count is ceil(given count * aspect ratio).
C4_BBoxInferredCounts ==
    (/\ ctor.op = "Grid2D" /\ ctor.args.bbox # None
     /\ ctor.args.x.x0 = None /\ ctor.args.y.x0 = None
     /\ ValidBBox(ctor.args.bbox[1])
     /\ ctor.args.x.dx = None /\ ctor.args.y.dx = None) =>
        LET bb == ctor.args.bbox[1]
            xr == RSub(bb[3], bb[1])
            yr == RSub(bb[4], bb[2])
            nx == ctor.args.x.nx
            ny == ctor.args.y.nx
        IN  /\ (nx = None /\ ny = None) =>
                /\ ctor.ok
                /\ IF RLe(xr, yr)
                   THEN /\ geom.nx = 10
                        /\ geom.ny = RCeil(RDiv(RMul(I(10), yr), xr))
                   ELSE /\ geom.ny = 10
                        /\ geom.nx = RCeil(RDiv(RMul(I(10), xr), yr))
            /\ (nx # None /\ ny = None /\ ctor.ok) =>
                geom.ny = RCeil(RDiv(RMul(I(nx[1]), yr), xr))
            /\ (nx = None /\ ny # None /\ ctor.ok) =>
                geom.nx = RCeil(RDiv(RMul(I(ny[1]), xr), yr))

\* C5: Grid2D construction fails with GeometryError, and no grid is
\* observable, whenever a bounding box is supplied with left > right or
\* bottom > top, and whenever x0 or y0 is supplied together with a
\* bounding box.
C5_BBoxConflictsRejected ==
    (/\ ctor.op = "Grid2D" /\ ctor.args.bbox # None
     /\ \/ ~ValidBBox(ctor.args.bbox[1])
        \/ ctor.args.x.x0 # None
        \/ ctor.args.y.x0 # None) =>
        ~ctor.ok /\ ctor.exc \in GeometryError /\ geom.kind = "none"

\* C6: bbox fails with NotSupported on a rotated or spectral grid; for
\* every other grid it returns (x[0]-dx/2, y[0]-dy/2, x[-1]+dx/2,
\* y[-1]+dy/2) over the cell centers with the origin offset, with
\* left <= right and bottom <= top.
C6_BboxOutcome ==
    call.op = "bbox" =>
        IF RLt(Rat(1, RotTolInv), RAbs(geom.orientation)) \/ geom.is_spectral
        THEN ~call.out.ok /\ call.out.exc \in NotSupported
        ELSE /\ call.out.ok
             /\ call.out.val =
                    <<RSub(CentersX(geom)[1], RHalf(geom.dx)),
                      RSub(CentersY(geom)[1], RHalf(geom.dy)),
                      RAdd(CentersX(geom)[geom.nx], RHalf(geom.dx)),
                      RAdd(CentersY(geom)[geom.ny], RHalf(geom.dy))>>
             /\ RLe(call.out.val[1], call.out.val[3])
             /\ RLe(call.out.val[2], call.out.val[4])

\* the points of a find_index call given as coords or as x and y
PointsOf(a) ==
    IF a.coords # None
    THEN a.coords[1]
    ELSE [k \in 1..Len(a.x[1].v) |-> <<a.x[1].v[k], a.y[1].v[k]>>]

PointsGiven(a) ==
    \/ a.coords # None /\ a.x = None /\ a.y = None
    \/ /\ a.coords = None /\ a.x # None /\ a.y # None
       /\ Len(a.x[1].v) = Len(a.y[1].v)

\* p lies in the closed interval spanned by the centers c, half a cell
\* beyond the first and the last
InsideAxis(c, d, p) ==
    RLe(RSub(c[1], RHalf(d)), p) /\ RLe(p, RAdd(c[Len(c)], RHalf(d)))

\* i (0-based) is the lowest index of a center of c nearest to p
NearestLowest(c, i, p) ==
    /\ i \in 0..(Len(c) - 1)
    /\ \A k \in 1..Len(c) :
          /\ RLe(RAbs(RSub(c[i + 1], p)), RAbs(RSub(c[k], p)))
          /\ k < i + 1 => RLt(RAbs(RSub(c[i + 1], p)), RAbs(RSub(c[k], p)))

\* C7: on a non-rotated, non-spectral grid, find_index by coordinates
\* returns (-1, -1) for a point iff the point is outside the grid's closed
\* bounding box, and otherwise the indices of the nearest cell center on
\* each axis (lowest index on ties), 0 <= i < nx and 0 <= j < ny.
C7_FindIndexPoints ==
    (/\ call.op = "find_index"
     /\ ~RLt(Rat(1, RotTolInv), RAbs(geom.orientation)) /\ ~geom.is_spectral
     /\ call.args.area = None
     /\ PointsGiven(call.args)) =>
        /\ call.out.ok
        /\ Len(call.out.val[1]) = Len(PointsOf(call.args))
        /\ Len(call.out.val[2]) = Len(PointsOf(call.args))
        /\ \A k \in 1..Len(PointsOf(call.args)) :
              IF /\ InsideAxis(CentersX(geom), geom.dx, PointsOf(call.args)[k][1])
                 /\ InsideAxis(CentersY(geom), geom.dy, PointsOf(call.args)[k][2])
              THEN /\ NearestLowest(CentersX(geom), call.out.val[1][k],
                                    PointsOf(call.args)[k][1])
                   /\ NearestLowest(CentersY(geom), call.out.val[2][k],
                                    PointsOf(call.args)[k][2])
              ELSE call.out.val[1][k] = -1 /\ call.out.val[2][k] = -1

\* C8: find_index with coords together with x or y fails with a value
\* error, never a silent result.
C8_FindIndexConflict ==
    (/\ call.op = "find_index"
     /\ call.args.coords # None
     /\ call.args.x # None \/ call.args.y # None) =>
        ~call.out.ok /\ call.out.exc = "ValueError"

\* 0-based indices of the centers of c lying in [lo, hi]
CentersIn(c, lo, hi) ==
    {k - 1 : k \in {m \in 1..Len(c) : RLe(lo, c[m]) /\ RLe(c[m], hi)}}

\* [lo, hi] has no point in common with the span of the centers c
MissesAxis(c, lo, hi) ==
    Len(c) = 0 \/ RLt(hi, c[1]) \/ RLt(c[Len(c)], lo)

\* C9: find_index by area never fails; it returns (None, None) with a
\* warning when the box does not intersect the grid, and otherwise a pair
\* of index ranges holding exactly the cells whose center is in the box.
C9_FindIndexArea ==
    (/\ call.op = "find_index"
     /\ call.args.x = None /\ call.args.y = None /\ call.args.coords = None
     /\ call.args.area # None) =>
        /\ call.out.ok
        /\ IF \/ MissesAxis(Grid2D_x(geom), call.args.area[1][1], call.args.area[1][3])
              \/ MissesAxis(Grid2D_y(geom), call.args.area[1][2], call.args.area[1][4])
           THEN call.out.val = <<None, None>> /\ call.out.warned
           ELSE /\ call.out.val[1] # None /\ call.out.val[2] # None
                /\ call.out.val[1][1][1]..(call.out.val[1][1][2] - 1) =
                      CentersIn(Grid2D_x(geom), call.args.area[1][1],
                                call.args.area[1][3])
                /\ call.out.val[2][1][1]..(call.out.val[2][1][2] - 1) =
                      CentersIn(Grid2D_y(geom), call.args.area[1][2],
                                call.args.area[1][4])

\* idx is not an increasing selection of equal stride
NotEqualStride(idx) ==
    \E k \in 1..(Len(idx) - 1) :
        idx[k + 1] - idx[k] < 1 \/ idx[k + 1] - idx[k] # idx[2] - idx[1]

\* C10: isel on a Grid2D or Grid3D with a non-scalar index that is not an
\* increasing, equal-stride selection returns GeometryUndefined and emits a
\* warning; it never fails.
C10_IselUnequalStride ==
    (/\ call.op = "isel"
     /\ ~call.args.idx.scalar
     /\ NotEqualStride(call.args.idx.v)) =>
        /\ call.out.ok
        /\ call.out.val.kind = "GeometryUndefined"
        /\ call.out.warned

\* idx is an increasing equal-stride selection of length >= 2 of 0 .. n-1
EqualStrideIn(idx, n) ==
    /\ Len(idx) >= 2
    /\ ~NotEqualStride(idx)
    /\ \A k \in 1..Len(idx) : idx[k] \in 0..(n - 1)

\* c[idx] for 0-based indices
SelectedOf(c, idx) == [k \in 1..Len(idx) |-> c[idx[k] + 1]]

IselOnGrid2D == call.op = "isel" /\ geom.kind = "Grid2D" /\ ~call.args.idx.scalar

\* C11: on an unrotated, non-spectral Grid2D, isel with an increasing
\* equal-stride index array of length >= 2 on axis 1 returns a Grid2D with
\* nx = len(idx), dx = dx * stride, the y axis unchanged and x = x[idx];
\* symmetrically on axis 0 for y.
C11_IselEqualStride ==
    (/\ IselOnGrid2D
     /\ ~RLt(Rat(1, RotTolInv), RAbs(geom.orientation)) /\ ~geom.is_spectral
     /\ EqualStrideIn(call.args.idx.v,
                      IF call.args.axis = 1 THEN geom.nx ELSE geom.ny)) =>
        /\ call.out.ok
        /\ call.out.val.kind = "Grid2D"
        /\ IF call.args.axis = 1
           THEN /\ call.out.val.nx = Len(call.args.idx.v)
                /\ call.out.val.dx =
                      RMul(geom.dx, I(call.args.idx.v[2] - call.args.idx.v[1]))
                /\ CentersX(call.out.val) =
                      SelectedOf(CentersX(geom), call.args.idx.v)
                /\ call.out.val.dy = geom.dy
                /\ CentersY(call.out.val) = CentersY(geom)
           ELSE /\ call.out.val.ny = Len(call.args.idx.v)
                /\ call.out.val.dy =
                      RMul(geom.dy, I(call.args.idx.v[2] - call.args.idx.v[1]))
                /\ CentersY(call.out.val) =
                      SelectedOf(CentersY(geom), call.args.idx.v)
                /\ call.out.val.dx = geom.dx
                /\ CentersX(call.out.val) = CentersX(geom)

IselReduced == IselOnGrid2D /\ call.out.ok /\ call.out.val.kind = "Grid2D"

\* distance from the first cell to the first selected cell, on x and on y
FirstOffset ==
    <<IF call.args.axis = 1
      THEN RSub(Grid2D_x(geom)[call.args.idx.v[1] + 1], Grid2D_x(geom)[1])
      ELSE I(0),
      IF call.args.axis = 0
      THEN RSub(Grid2D_y(geom)[call.args.idx.v[1] + 1], Grid2D_y(geom)[1])
      ELSE I(0)>>

OffsetFolded ==
    /\ call.out.val.x0 = I(0) /\ call.out.val.y0 = I(0)
    /\ call.out.val.origin = <<RAdd(geom.origin[1], FirstOffset[1]),
                               RAdd(geom.origin[2], FirstOffset[2])>>

OffsetEmbedded ==
    /\ call.out.val.x0 = FirstOffset[1] /\ call.out.val.y0 = FirstOffset[2]
    /\ call.out.val.origin = geom.origin

QuadOf(ix, iy, nx, b) ==
    <<iy * nx + ix + b, iy * nx + ix + 1 + b,
      (iy + 1) * nx + ix + 1 + b, (iy + 1) * nx + ix + b>>

NodeSet(e) == {e[i] : i \in 1..4}

\* C13: for a node grid with nx >= 2 and ny >= 2 and any index_base,
\* _to_element_table returns exactly (nx-1)*(ny-1) quadrilaterals, one per
\* (ix, iy) with node list [iy*nx+ix, iy*nx+ix+1, (iy+1)*nx+ix+1,
\* (iy+1)*nx+ix] + index_base, each with 4 distinct nodes inside
\* [index_base, index_base + nx*ny), no two with the same node set.
C13_ElementTable ==
    (call.op = "to_element_table" /\ geom.nx >= 2 /\ geom.ny >= 2) =>
        /\ call.out.ok
        /\ Len(call.out.val) = (geom.nx - 1) * (geom.ny - 1)
        /\ {call.out.val[k] : k \in 1..Len(call.out.val)} =
              {QuadOf(ix, iy, geom.nx, call.args.index_base) :
                  ix \in 0..(geom.nx - 2), iy \in 0..(geom.ny - 2)}
        /\ \A k \in 1..Len(call.out.val) :
              /\ Cardinality(NodeSet(call.out.val[k])) = 4
              /\ NodeSet(call.out.val[k]) \subseteq
                    call.args.index_base..
                        (call.args.index_base + geom.nx * geom.ny - 1)
        /\ \A k, m \in 1..Len(call.out.val) :
              k # m => NodeSet(call.out.val[k]) # NodeSet(call.out.val[m])

\* a 3 x 3 node grid, index_base 1: 4 quadrilaterals
C13_Witness ==
    /\ call.op = "to_element_table"
    /\ geom.nx = 3 /\ geom.ny = 3
    /\ call.args.index_base = 1
    /\ Len(call.out.val) = 4

\* the codes of the outer edges on which node (i, j) of an (nx+1) x (ny+1)
\* node grid lies: west 2, south 3, east 4, north 5
EdgeCodes(i, j, nx, ny) ==
    {c \in {2, 3, 4, 5} :
        \/ c = 2 /\ i = 0
        \/ c = 3 /\ j = 0
        \/ c = 4 /\ i = nx
        \/ c = 5 /\ j = ny}

NodeCodeAsClaimed(code, i, j, nx, ny) ==
    IF EdgeCodes(i, j, nx, ny) = {} THEN code = 0
    ELSE /\ code \in EdgeCodes(i, j, nx, ny)
         /\ (i = 0 /\ j = ny) => code = 5

\* C14: to_mesh gives each of the (nx+1)*(ny+1) nodes of a cell-centered
\* Grid2D the code of an outer edge it lies on (west 2, south 3, east 4,
\* north 5; the north-west corner 5), and code 0 iff the node is interior.
C14_MeshBoundaryCodes ==
    (/\ call.op = "to_mesh"
     /\ ~geom.is_spectral
     /\ call.args.z = None \/ call.args.z[1].scalar) =>
        /\ call.out.ok
        /\ Len(call.out.val.codes) = (geom.nx + 1) * (geom.ny + 1)
        /\ \A k \in 1..Len(call.out.val.codes) :
              NodeCodeAsClaimed(call.out.val.codes[k],
                                (k - 1) % (geom.nx + 1),
                                (k - 1) \div (geom.nx + 1),
                                geom.nx, geom.ny)

\* nodes i and i + 1 (1-based) of the axis bracket the point p strictly
Brackets(g, i, p) ==
    /\ RLt(RAdd(g.x0, RMul(I(i - 1), g.dx)), p)
    /\ RLt(p, RAdd(g.x0, RMul(I(i), g.dx)))

\* the result names nodes i, i + 1, nearest first, with weights 1 - |x - p|
\* that sum to 1
InterpolantAsClaimed(g, i, p, r) ==
    /\ r.ok
    /\ {r.val.ids[1], r.val.ids[2]} = {i - 1, i}
    /\ \A k \in 1..2 :
          r.val.weights[k] =
              RSub(I(1), RAbs(RSub(RAdd(g.x0, RMul(I(r.val.ids[k]), g.dx)), p)))
    /\ RLe(r.val.weights[2], r.val.weights[1])
    /\ IsClose(RAdd(r.val.weights[1], r.val.weights[2]), I(1))

\* C15: for a Grid1D with nx >= 2 and any dx > 0 and a point between two
\* adjacent nodes, get_spatial_interpolant returns the two bracketing nodes
\* by ascending distance with weights 1 - |x_i - point| summing to 1; the
\* assertion on the sum does not fail.
C15_InterpolantBetweenNodes ==
    (/\ call.op = "get_spatial_interpolant"
     /\ geom.nx >= 2 /\ RLt(I(0), geom.dx)) =>
        \A i \in 1..(geom.nx - 1) :
            Brackets(geom, i, call.args.point) =>
                InterpolantAsClaimed(geom, i, call.args.point, call.out)

CentersZ(g) == Centers(g.z0, g.dz, g.nz, I(0))

\* xs is increasing with exactly equal steps
IncreasingEquidistant(xs) ==
    /\ \A k \in 1..(Len(xs) - 1) : RLt(xs[k], xs[k + 1])
    /\ ExactlyEquidistant(xs)

LayersAsClaimed(g, layers, r) ==
    IF Len(layers) = 1
    THEN /\ r.ok /\ r.val.kind = "Grid2D"
         /\ CentersX(r.val) = Centers(g.x0, g.dx, g.nx, g.origin[1])
         /\ CentersY(r.val) = Centers(g.y0, g.dy, g.ny, g.origin[2])
    ELSE IF IncreasingEquidistant(SelectedOf(CentersZ(g), layers))
    THEN /\ r.ok /\ r.val.kind = "Grid3D"
         /\ Centers(r.val.x0, r.val.dx, r.val.nx, I(0)) =
               Centers(g.x0, g.dx, g.nx, I(0))
         /\ Centers(r.val.y0, r.val.dy, r.val.ny, I(0)) =
               Centers(g.y0, g.dy, g.ny, I(0))
         /\ r.val.origin = g.origin
         /\ CentersZ(r.val) = SelectedOf(CentersZ(g), layers)
    ELSE r.ok /\ r.val.kind = "GeometryUndefined" /\ r.warned

\* C16: _geometry_for_layers returns the grid itself for layers = None, a
\* Grid2D over (x + origin, y + origin) for one layer, and for two or more
\* layers a Grid3D with the same x, y, origin and z restricted to the
\* layers when the selected z are increasing and equidistant (any dz > 0),
\* GeometryUndefined with a warning otherwise.
C16_GeometryForLayers ==
    (/\ call.op = "geometry_for_layers"
     /\ call.args.layers # None =>
           /\ Len(call.args.layers[1]) >= 1
           /\ \A k \in 1..Len(call.args.layers[1]) :
                 call.args.layers[1][k] < geom.nz) =>
        IF call.args.layers = None
        THEN call.out.ok /\ call.out.val = geom
        ELSE LayersAsClaimed(geom, call.args.layers[1], call.out)

\* the (x[i], y[j]) pairs row by row, x varying fastest
RowMajorPairs(x, y) ==
    [k \in 1..(Len(x) * Len(y)) |->
        <<x[((k - 1) % Len(x)) + 1], y[((k - 1) \div Len(x)) + 1]>>]

\* C17: after any sequence of reads of xy, _xx, _yy, assignments of
\* is_spectral and calls of _shift_x0y0_to_origin on one Grid2D, the value
\* returned by xy is the row-major list of (x[i], y[j]) computed from the x
\* and y properties at that moment.
C17_MeshgridCacheFresh ==
    call.op = "xy" =>
        /\ call.out.ok
        /\ call.out.val = RowMajorPairs(Grid2D_x(live), Grid2D_y(live))

\* C18: Dfs1.read with a valid selection of time steps returns, for each
\* item, len(time_steps) rows, row k holding the data of file step
\* time_steps[k], and a time list whose k-th entry is the time of
\* time_steps[k]; it does not fail.
C18_ReadSelectedSteps ==
    (call.op = "read" /\ geom.nt >= 1) =>
        /\ call.out.ok
        /\ Len(call.out.val.time) = Len(call.args.time_steps)
        /\ \A k \in 1..Len(call.args.time_steps) :
              /\ call.out.val.time[k] = ItemTime(geom, call.args.time_steps[k])
              /\ \A item \in 1..geom.n_items :
                    /\ Len(call.out.val.data[item]) = Len(call.args.time_steps)
                    /\ call.out.val.data[item][k] =
                          ItemData(geom, item - 1, call.args.time_steps[k])

\* C19: a Grid2D built from a bounding box has, on every axis whose count
\* (nx or ny) was supplied, exactly that count, whatever dx, dy and the
\* other axis's count are; only a count left as None is inferred.
C19_BBoxSuppliedCountsKept ==
    (ctor.op = "Grid2D" /\ ctor.args.bbox # None /\ ctor.ok) =>
        /\ ctor.args.x.nx # None => geom.nx = ctor.args.x.nx[1]
        /\ ctor.args.y.nx # None => geom.ny = ctor.args.y.nx[1]

====
